---- MODULE Spec2Model ----
(***************************************************************************)
(* Release-artifact verification scripts of Plex-Show-Subtitles-On-Rewind. *)
(*                                                                         *)
(*   scripts/verify_build.py   build, locate, copy and validate one        *)
(*                             executable per requested platform           *)
(*   scripts/verify_docker.py  readiness, pull, inspect, run, log scan and *)
(*                             cleanup of a test container                 *)
(*                                                                         *)
(* Three specifications share the module:                                  *)
(*   SpecBuild   main() of verify_build.py                                 *)
(*   SpecCheck   check_executable() applied to every input                 *)
(*   SpecDocker  main() of verify_docker.py                                *)
(*                                                                         *)
(* External commands (dotnet, git, docker) are opaque: every invocation    *)
(* returns with an exit status chosen by the environment.  The tools are   *)
(* taken to be installed, so that launching one never fails by itself.     *)
(***************************************************************************)
EXTENDS Integers, Sequences, FiniteSets

VARIABLES
    \* ---- verify_build.py: main() ----
    platforms,   \* args.platforms, the requested list
    bpc,         \* position of main(): "start", "loop", "done"
    idx,         \* 1-based index of the next platform of the for loop
    success,     \* the local variable success
    history,     \* what was done for each platform taken up so far
    bexit,       \* process exit code (-1 while running)
    \* ---- check_executable() on its own ----
    chkPlatform, \* platform_name
    chkFile,     \* the file at file_path
    chkResult,   \* "none" before the call, then "true" or "false"
    \* ---- verify_docker.py: main() ----
    dpc,         \* position of main()
    keep,        \* args.keep_container
    cname,       \* args.container_name
    cmds,        \* the commands issued so far, in order
    trace,       \* the steps of main() entered so far, in order
    outcome,     \* how each stage ended
    pending,     \* how control left the try block
    logs,        \* the substrings the fetched logs hold
    warnings,    \* the patterns warned about, in order
    dexit        \* process exit code (-1 while running)

buildVars == <<platforms, bpc, idx, success, history, bexit>>
checkVars == <<chkPlatform, chkFile, chkResult>>
dockerVars == <<dpc, keep, cname, cmds, trace, outcome, pending, logs, warnings, dexit>>
vars == <<buildVars, checkVars, dockerVars>>

(***************************************************************************)
(* Bounds and input sets                                                   *)
(***************************************************************************)
MaxPlatforms == 3

\* verify_build.py:18-19
PLATFORMS == {"win-x64", "linux-x64", "osx-x64"}
MIN_FILE_SIZE == 1000000

\* Requested identifiers: the Windows target, a known non-Windows target
\* and one identifier outside PLATFORMS.
RequestIds == {"win-x64", "linux-x64", "freebsd-x64"}

\* File sizes around the threshold.
Sizes == {0, MIN_FILE_SIZE - 1, MIN_FILE_SIZE, MIN_FILE_SIZE + 1}

\* Files the publish directory may hold: name and executable permission.
PublishFiles ==
    { [name |-> "RewindSubtitleDisplayerForPlex.exe", x |-> FALSE],
      [name |-> "RewindSubtitleDisplayerForPlex", x |-> TRUE],
      [name |-> "RewindSubtitleDisplayerForPlex.pdb", x |-> FALSE],
      [name |-> "createdump", x |-> TRUE] }

\* States of the publish directory after the toolchain ran.
DirStates ==
    {[exists |-> FALSE, files |-> {}]}
        \cup {[exists |-> TRUE, files |-> S] : S \in SUBSET PublishFiles}

SeqsUpTo(S, n) == UNION {[1..k -> S] : k \in 1..n}

(***************************************************************************)
(* verify_build.py                                                         *)
(***************************************************************************)
\* "RewindSubtitleDisplayerForPlex" in name
HasProductId(name) ==
    name \in { "RewindSubtitleDisplayerForPlex.exe",
               "RewindSubtitleDisplayerForPlex",
               "RewindSubtitleDisplayerForPlex.pdb" }

\* glob "*.exe"
IsExeName(name) == name \in {"RewindSubtitleDisplayerForPlex.exe"}

\* find_executable: the files it may return (the first match in directory
\* order); the empty set stands for None.  glob and os.walk over a missing
\* directory both yield nothing.
find_executable(dir, platform) ==
    IF platform = "win-x64"
    THEN {f \in dir.files : IsExeName(f.name) /\ HasProductId(f.name)}
    ELSE {f \in dir.files : HasProductId(f.name) /\ f.x}

\* check_executable with a size test that rejects the threshold itself.
check_executable_strict(file, platform_name) ==
    IF ~file.isfile THEN FALSE
    ELSE IF file.size <= MIN_FILE_SIZE THEN FALSE
    ELSE IF platform_name # "win-x64" /\ ~file.x THEN FALSE
    ELSE TRUE

\* check_executable
check_executable(file, platform_name) ==
    IF ~file.isfile THEN FALSE
    ELSE IF file.size < MIN_FILE_SIZE THEN FALSE
    ELSE IF platform_name # "win-x64" /\ ~file.x THEN FALSE
    ELSE TRUE

NoTarget == [isfile |-> FALSE, size |-> 0, x |-> FALSE]

\* shutil.copy2 keeps size and mode; os.chmod(0o755) on non-Windows targets.
CopyToAssets(f, sz, platform_name) ==
    [isfile |-> TRUE, size |-> sz,
     x |-> IF platform_name # "win-x64" THEN TRUE ELSE f.x]

\* build_for_platform: rc is the toolchain's exit status, dir the publish
\* directory it left, f the file find_executable returned (when there is
\* one) and sz that file's size.  result is "true", "false", or "raise"
\* when os.listdir fails on a missing directory.
build_for_platform(platform_name, rc, dir, f, sz) ==
    IF rc # 0
    THEN [steps |-> <<"build">>, result |-> "false", target |-> NoTarget]
    ELSE IF find_executable(dir, platform_name) = {}
    THEN IF dir.exists
         THEN [steps |-> <<"build", "locate", "list">>, result |-> "false",
               target |-> NoTarget]
         ELSE [steps |-> <<"build", "locate">>, result |-> "raise",
               target |-> NoTarget]
    ELSE LET t == CopyToAssets(f, sz, platform_name) IN
         [steps |-> <<"build", "locate", "copy", "check">>,
          result |-> IF check_executable(t, platform_name) THEN "true" ELSE "false",
          target |-> t]

ExitCodes == {0, 1}

InitOther_Build ==
    /\ chkPlatform = "win-x64" /\ chkFile = NoTarget /\ chkResult = "none"
    /\ dpc = "idle" /\ keep = FALSE /\ cname = "plex-subtitles-test"
    /\ cmds = <<>> /\ trace = <<>> /\ outcome = <<>> /\ pending = "none"
    /\ logs = {} /\ warnings = <<>> /\ dexit = -1

InitBuild ==
    /\ platforms \in SeqsUpTo(RequestIds, MaxPlatforms)
    /\ bpc = "start"
    /\ idx = 1
    /\ success = TRUE
    /\ history = <<>>
    /\ bexit = -1
    /\ InitOther_Build

\* find_repo_root: git rev-parse fails -> sys.exit(1)
FindRepoRoot ==
    /\ bpc = "start"
    /\ \E rc \in ExitCodes :
        IF rc = 0
        THEN /\ bpc' = "loop"
             /\ bexit' = bexit
        ELSE /\ bpc' = "done"
             /\ bexit' = 1
    /\ UNCHANGED <<platforms, idx, success, history>>
    /\ UNCHANGED <<checkVars, dockerVars>>

\* The loop body with success overwritten by each platform's result.
NextSuccess_overwrite(ok) == ok

\* if not build_for_platform(...): success = False
NextSuccess(ok) == IF ~ok THEN FALSE ELSE success

\* What one iteration of the loop does for platform p, r being what
\* build_for_platform did.
Entry(p, r) ==
    [platform |-> p, warned |-> (p \notin PLATFORMS), steps |-> r.steps,
     result |-> r.result, target |-> r.target]

\* One iteration of the for loop of main(); an exception out of
\* build_for_platform is not caught: the interpreter ends with exit code 1.
Iterate ==
    /\ bpc = "loop"
    /\ idx <= Len(platforms)
    /\ \E rc \in ExitCodes, dir \in DirStates, sz \in Sizes :
        LET p == platforms[idx]
            found == find_executable(dir, p)
            picks == IF found = {} THEN {CHOOSE g \in PublishFiles : TRUE} ELSE found
        IN \E f \in picks :
            LET e == Entry(p, build_for_platform(p, rc, dir, f, sz)) IN
            /\ history' = Append(history, e)
            /\ IF e.result = "raise"
               THEN /\ bpc' = "done"
                    /\ bexit' = 1
                    /\ UNCHANGED <<idx, success>>
               ELSE /\ bpc' = bpc
                    /\ bexit' = bexit
                    /\ idx' = idx + 1
                    /\ success' = NextSuccess(e.result = "true")
    /\ UNCHANGED platforms
    /\ UNCHANGED <<checkVars, dockerVars>>

\* After the loop: return 0 if success else 1
Finish ==
    /\ bpc = "loop"
    /\ idx > Len(platforms)
    /\ bpc' = "done"
    /\ bexit' = IF success THEN 0 ELSE 1
    /\ UNCHANGED <<platforms, idx, success, history>>
    /\ UNCHANGED <<checkVars, dockerVars>>

NextBuild == FindRepoRoot \/ Iterate \/ Finish

SpecBuild == InitBuild /\ [][NextBuild]_vars

(***************************************************************************)
(* check_executable on its own: every platform, file state, size and       *)
(* permission                                                              *)
(***************************************************************************)
FileStates == [isfile : BOOLEAN, size : Sizes, x : BOOLEAN]

InitOther_Check ==
    /\ platforms = <<"win-x64">> /\ bpc = "idle" /\ idx = 1 /\ success = TRUE
    /\ history = <<>> /\ bexit = -1
    /\ dpc = "idle" /\ keep = FALSE /\ cname = "plex-subtitles-test"
    /\ cmds = <<>> /\ trace = <<>> /\ outcome = <<>> /\ pending = "none"
    /\ logs = {} /\ warnings = <<>> /\ dexit = -1

InitCheck ==
    /\ chkPlatform \in RequestIds \cup PLATFORMS
    /\ chkFile \in FileStates
    /\ chkResult = "none"
    /\ InitOther_Check

CheckExecutable ==
    /\ chkResult = "none"
    /\ chkResult' = IF check_executable(chkFile, chkPlatform) THEN "true" ELSE "false"
    /\ UNCHANGED <<chkPlatform, chkFile>>
    /\ UNCHANGED <<buildVars, dockerVars>>

NextCheck == CheckExecutable

SpecCheck == InitCheck /\ [][NextCheck]_vars

(***************************************************************************)
(* verify_docker.py                                                        *)
(***************************************************************************)
ContainerNames == {"plex-subtitles-test", "plex-prod"}

\* check_container_logs: error_patterns, in the order scanned
error_patterns ==
    <<"Error:", "Exception:", "Failed:", "Could not", "Unhandled exception">>

\* Substrings a log may hold: the five patterns, a lower-case variant that
\* no pattern matches, and an ordinary line.
LogTokens ==
    {"Error:", "Exception:", "Failed:", "Could not", "Unhandled exception",
     "error:", "Listening"}

Stages == {"readiness", "pull", "inspect", "run", "logscan"}

\* One issued command: what it is, the container it names ("" when it names
\* none) and the exit status it returned.
Cmd(c, t, rc) == [cmd |-> c, target |-> t, rc |-> rc]

\* check_docker_running without the sys.exit after the second failed query.
check_docker_running_noexit(rc1, rcStart, rc2) ==
    IF rc1 # 0
    THEN [cmds |-> <<Cmd("info", "", rc1), Cmd("dockerd", "", rcStart),
                     Cmd("info", "", rc2)>>,
          how |-> "ok", warnings |-> <<>>]
    ELSE [cmds |-> <<Cmd("info", "", rc1)>>, how |-> "ok", warnings |-> <<>>]

\* check_docker_running: docker info; on failure one start attempt, the
\* delay, docker info again; sys.exit(1) when that fails too.
check_docker_running(rc1, rcStart, rc2) ==
    IF rc1 # 0
    THEN [cmds |-> <<Cmd("info", "", rc1), Cmd("dockerd", "", rcStart),
                     Cmd("info", "", rc2)>>,
          how |-> IF rc2 # 0 THEN "exit" ELSE "ok", warnings |-> <<>>]
    ELSE [cmds |-> <<Cmd("info", "", rc1)>>, how |-> "ok", warnings |-> <<>>]

\* pull_docker_image: run_command with check=True exits on a non-zero status.
pull_docker_image(rc) ==
    [cmds |-> <<Cmd("pull", "", rc)>>,
     how |-> IF rc # 0 THEN "exit" ELSE "ok", warnings |-> <<>>]

\* What docker inspect printed: a list with the image's record, an empty
\* list, or output json.loads or the field accesses reject.
InspectOutputs == {"info", "empty", "malformed"}

\* inspect_docker_image
inspect_docker_image(rc, out) ==
    [cmds |-> <<Cmd("inspect", "", rc)>>,
     how |-> IF rc # 0 THEN "exit"
             ELSE IF out = "malformed" THEN "raise"
             ELSE IF out = "empty" THEN "exit"
             ELSE "ok",
     warnings |-> <<>>]

\* run_docker_container: os.makedirs (which may raise), docker rm -f with
\* check=False, docker run with check=True.
run_docker_container(name, mk, rcRm, rcRun) ==
    IF mk # "ok"
    THEN [cmds |-> <<>>, how |-> "raise", warnings |-> <<>>]
    ELSE [cmds |-> <<Cmd("rm -f", name, rcRm), Cmd("run", name, rcRun)>>,
          how |-> IF rcRun # 0 THEN "exit" ELSE "ok", warnings |-> <<>>]

\* pattern in logs
InLogs(pattern, content) == pattern \in content

\* check_container_logs where a match ends the run.
check_container_logs_fatal(name, rc, content) ==
    LET found == SelectSeq(error_patterns, LAMBDA q : InLogs(q, content)) IN
    [cmds |-> <<Cmd("logs", name, rc)>>,
     how |-> IF rc # 0 \/ found # <<>> THEN "exit" ELSE "ok",
     warnings |-> IF rc # 0 THEN <<>> ELSE found]

\* check_container_logs where the scan stops at the first match.
check_container_logs_first(name, rc, content) ==
    LET found == SelectSeq(error_patterns, LAMBDA q : InLogs(q, content)) IN
    [cmds |-> <<Cmd("logs", name, rc)>>,
     how |-> IF rc # 0 THEN "exit" ELSE "ok",
     warnings |-> IF rc # 0 \/ found = <<>> THEN <<>> ELSE <<Head(found)>>]

\* check_container_logs: the delay, docker logs with check=True, then one
\* warning per pattern the logs hold.
check_container_logs(name, rc, content) ==
    [cmds |-> <<Cmd("logs", name, rc)>>,
     how |-> IF rc # 0 THEN "exit" ELSE "ok",
     warnings |-> IF rc # 0 THEN <<>>
                  ELSE SelectSeq(error_patterns, LAMBDA q : InLogs(q, content))]

\* cleanup that stops and removes whatever the keep flag says.
cleanup_ignores_keep(name, keep_container, rcStop, rcRm) ==
    <<Cmd("stop", name, rcStop), Cmd("rm", name, rcRm)>>

\* cleanup that force-removes in one command.
cleanup_force(name, keep_container, rcStop, rcRm) ==
    IF ~keep_container THEN <<Cmd("rm -f", name, rcRm)>> ELSE <<>>

\* cleanup: docker stop then docker rm, both with check=False, unless the
\* container is kept.
cleanup(name, keep_container, rcStop, rcRm) ==
    IF ~keep_container
    THEN <<Cmd("stop", name, rcStop), Cmd("rm", name, rcRm)>>
    ELSE <<>>

InitOther_Docker ==
    /\ platforms = <<"win-x64">> /\ bpc = "idle" /\ idx = 1 /\ success = TRUE
    /\ history = <<>> /\ bexit = -1
    /\ chkPlatform = "win-x64" /\ chkFile = NoTarget /\ chkResult = "none"

InitDocker ==
    /\ dpc = "readiness"
    /\ keep \in BOOLEAN
    /\ cname \in ContainerNames
    /\ cmds = <<>>
    /\ trace = <<>>
    /\ outcome = [s \in Stages |-> "none"]
    /\ pending = "none"
    /\ logs = {}
    /\ warnings = <<>>
    /\ dexit = -1
    /\ InitOther_Docker

\* One stage of the try block of main(): r is what the stage's function
\* did.  A stage that returns hands over to nxt ("finally" after the last
\* one, whose return 0 is pending); sys.exit raises SystemExit, which
\* except Exception does not catch, so control goes to the finally block;
\* any other exception goes to the except block.
StageStep(stage, r, nxt) ==
    /\ trace' = Append(trace, stage)
    /\ cmds' = cmds \o r.cmds
    /\ warnings' = warnings \o r.warnings
    /\ outcome' = [outcome EXCEPT ![stage] = r.how]
    /\ dpc' = IF r.how = "ok" THEN nxt
              ELSE IF r.how = "exit" THEN "finally"
              ELSE "except"
    /\ pending' = IF r.how = "exit" THEN "sysexit"
                  ELSE IF r.how = "ok" /\ nxt = "finally" THEN "return0"
                  ELSE pending
    /\ UNCHANGED <<keep, cname, dexit>>
    /\ UNCHANGED <<buildVars, checkVars>>

CheckDockerRunning ==
    /\ dpc = "readiness"
    /\ \E rc1 \in ExitCodes, rcStart \in ExitCodes, rc2 \in ExitCodes :
        StageStep("readiness", check_docker_running(rc1, rcStart, rc2), "pull")
    /\ UNCHANGED logs

PullDockerImage ==
    /\ dpc = "pull"
    /\ \E rc \in ExitCodes : StageStep("pull", pull_docker_image(rc), "inspect")
    /\ UNCHANGED logs

InspectDockerImage ==
    /\ dpc = "inspect"
    /\ \E rc \in ExitCodes, out \in InspectOutputs :
        StageStep("inspect", inspect_docker_image(rc, out), "run")
    /\ UNCHANGED logs

RunDockerContainer ==
    /\ dpc = "run"
    /\ \E mk \in {"ok", "oserror"}, rcRm \in ExitCodes, rcRun \in ExitCodes :
        StageStep("run", run_docker_container(cname, mk, rcRm, rcRun), "logs")
    /\ UNCHANGED logs

\* check_container_logs, then the success message and return 0
CheckContainerLogs ==
    /\ dpc = "logs"
    /\ \E rc \in ExitCodes, content \in SUBSET LogTokens :
        /\ StageStep("logscan", check_container_logs(cname, rc, content), "finally")
        /\ logs' = IF rc = 0 THEN content ELSE logs

\* except Exception: print the error, return 1
ExceptHandler ==
    /\ dpc = "except"
    /\ trace' = Append(trace, "except")
    /\ pending' = "return1"
    /\ dpc' = "finally"
    /\ UNCHANGED <<keep, cname, cmds, outcome, logs, warnings, dexit>>
    /\ UNCHANGED <<buildVars, checkVars>>

\* finally: cleanup(...), after which the pending return or SystemExit ends
\* the process: 0 for return 0, 1 for return 1 and for sys.exit(1).
Cleanup ==
    /\ dpc = "finally"
    /\ \E rcStop \in ExitCodes, rcRm \in ExitCodes :
        cmds' = cmds \o cleanup(cname, keep, rcStop, rcRm)
    /\ trace' = Append(trace, "cleanup")
    /\ dpc' = "done"
    /\ dexit' = IF pending = "return0" THEN 0 ELSE 1
    /\ UNCHANGED <<keep, cname, outcome, pending, logs, warnings>>
    /\ UNCHANGED <<buildVars, checkVars>>

NextDocker ==
    \/ CheckDockerRunning
    \/ PullDockerImage
    \/ InspectDockerImage
    \/ RunDockerContainer
    \/ CheckContainerLogs
    \/ ExceptHandler
    \/ Cleanup

SpecDocker == InitDocker /\ [][NextDocker]_vars

(***************************************************************************)
(* Claims about verify_build.py                                            *)
(***************************************************************************)
\* The toolchain invocation failed for this entry.
ToolchainFailed(e) == e.steps = <<"build">>

\* The toolchain succeeded and no executable was found.
NotLocated(e) == Len(e.steps) >= 2 /\ e.steps[2] = "locate" /\ e.target = NoTarget

\* Built, located, copied, and the copy passes the three checks.
Validated(e) ==
    /\ e.steps = <<"build", "locate", "copy", "check">>
    /\ e.target.isfile
    /\ e.target.size >= MIN_FILE_SIZE
    /\ (e.platform # "win-x64" => e.target.x)

AllValidated ==
    /\ Len(history) = Len(platforms)
    /\ \A i \in 1..Len(history) :
        history[i].platform = platforms[i] /\ Validated(history[i])

\* C1: the exit code of the build verifier is 0 exactly when every requested
\* platform was built, located, copied and validated, and 1 otherwise; once
\* one platform has failed, the run can no longer end with 0 (success stays
\* false, or the run already ended with 1).
C1_ExitCodeIffAllValidated ==
    /\ bpc = "done" => (bexit \in {0, 1} /\ (bexit = 0 <=> AllValidated))
    /\ (\E i \in 1..Len(history) : ~Validated(history[i]))
          => (~success \/ (bpc = "done" /\ bexit = 1))

\* A run of three platforms where the first failed and the last succeeded.
C1_Witness ==
    /\ bpc = "done" /\ bexit = 1
    /\ Len(history) = 3
    /\ ~Validated(history[1])
    /\ Validated(history[3])

\* A run that ends with 0.
C1_WitnessZero == bpc = "done" /\ bexit = 0 /\ Len(history) = 2

\* C5: when the toolchain invocation fails for a platform, nothing else is
\* done for it, it counts as failed, every platform after it in the list is
\* still attempted in list order, and the exit code is 1.
C5_BuildFailureDoesNotAbort ==
    bpc = "done" =>
        \A i \in 1..Len(history) :
            ToolchainFailed(history[i]) =>
                /\ history[i].result = "false"
                /\ bexit = 1
                /\ Len(history) = Len(platforms)
                /\ \A j \in (i + 1)..Len(platforms) :
                    /\ history[j].platform = platforms[j]
                    /\ history[j].steps[1] = "build"

\* C6: in a run that entered the loop, every requested platform outside the
\* known set was warned about and attempted, and its failure makes the exit
\* code 1.
C6_UnknownPlatformAttempted ==
    (bpc = "done" /\ Len(history) >= 1) =>
        \A i \in 1..Len(platforms) :
            platforms[i] \notin PLATFORMS =>
                /\ i <= Len(history)
                /\ history[i].platform = platforms[i]
                /\ history[i].warned
                /\ Len(history[i].steps) >= 1
                /\ history[i].steps[1] = "build"
                /\ (history[i].result # "true" => bexit = 1)

\* C9: when the toolchain succeeded and no executable was found, whatever
\* the state of the publish directory, the platform fails after its
\* directory was listed and the remaining platforms are still attempted.
C9_NotFoundFailsThatPlatformOnly ==
    bpc = "done" =>
        \A i \in 1..Len(history) :
            NotLocated(history[i]) =>
                /\ history[i].result = "false"
                /\ history[i].steps = <<"build", "locate", "list">>
                /\ Len(history) = Len(platforms)
                /\ bexit = 1

(***************************************************************************)
(* Claims about check_executable                                           *)
(***************************************************************************)
\* C7 as stated: validation passes exactly when the file exists, its size
\* exceeds MIN_FILE_SIZE and, off Windows, it has the executable bit.
C7_PassIffExceedsThreshold ==
    chkResult # "none" =>
        (chkResult = "true" <=>
            /\ chkFile.isfile
            /\ chkFile.size > MIN_FILE_SIZE
            /\ (chkPlatform # "win-x64" => chkFile.x))

\* C7 (amended): validation passes exactly when the file exists, its size is
\* at least MIN_FILE_SIZE and, off Windows, it has the executable bit; so a
\* file below the threshold fails on every platform, and a non-Windows file
\* without the executable bit fails whatever its size.
C7_PassIffAtLeastThreshold ==
    chkResult # "none" =>
        /\ (chkResult = "true" <=>
              /\ chkFile.isfile
              /\ chkFile.size >= MIN_FILE_SIZE
              /\ (chkPlatform # "win-x64" => chkFile.x))
        /\ (chkFile.size < MIN_FILE_SIZE => chkResult = "false")
        /\ (chkPlatform # "win-x64" /\ ~chkFile.x => chkResult = "false")

\* A file of exactly MIN_FILE_SIZE bytes was checked and passed.
C7_Witness ==
    /\ chkResult = "true"
    /\ chkFile.size = MIN_FILE_SIZE
    /\ chkPlatform = "linux-x64"

(***************************************************************************)
(* Claims about verify_docker.py                                           *)
(***************************************************************************)
\* The stage a command belongs to: 1 readiness, 2 pull, 3 inspect, 4 run,
\* 5 log scan, 6 cleanup.
StageOfCmd(c) ==
    IF c.cmd \in {"info", "dockerd"} THEN 1
    ELSE IF c.cmd = "pull" THEN 2
    ELSE IF c.cmd = "inspect" THEN 3
    ELSE IF c.cmd \in {"rm -f", "run"} THEN 4
    ELSE IF c.cmd = "logs" THEN 5
    ELSE 6

StageRank(s) ==
    IF s = "readiness" THEN 1
    ELSE IF s = "pull" THEN 2
    ELSE IF s = "inspect" THEN 3
    ELSE IF s = "run" THEN 4
    ELSE 5

\* The names of the commands issued, in order, restricted to kinds.
Issued(kinds) == SelectSeq(cmds, LAMBDA c : c.cmd \in kinds)

Count(seq, v) == Cardinality({i \in 1..Len(seq) : seq[i] = v})

Destructive == {"stop", "rm", "rm -f"}

FourStagesOk ==
    \A s \in {"readiness", "pull", "inspect", "run"} : outcome[s] = "ok"

\* The exit status of the log fetch, -1 when docker logs was not issued.
LogFetchRc ==
    LET l == Issued({"logs"}) IN IF l = <<>> THEN -1 ELSE l[1].rc

\* C2: cleanup runs exactly once, as the last step of every run, and never
\* before the run is over (a run that is not over can always take a step); without the keep flag it issues one stop and one
\* remove of the test container (the last two commands of the run), with
\* the keep flag it issues neither.
C2_CleanupOnceAndLast ==
    /\ dpc # "done" => (Count(trace, "cleanup") = 0 /\ ENABLED NextDocker)
    /\ dpc = "done" =>
        /\ Count(trace, "cleanup") = 1
        /\ trace[Len(trace)] = "cleanup"
        /\ LET d == Issued({"stop", "rm"}) IN
           IF keep THEN d = <<>>
           ELSE /\ Len(d) = 2
                /\ d[1].cmd = "stop" /\ d[1].target = cname
                /\ d[2].cmd = "rm" /\ d[2].target = cname
                /\ Len(cmds) >= 2
                /\ cmds[Len(cmds) - 1] = d[1]
                /\ cmds[Len(cmds)] = d[2]

\* A run ended by sys.exit from the log fetch, without the keep flag.
C2_Witness ==
    /\ dpc = "done" /\ ~keep
    /\ outcome["logscan"] = "exit"
    /\ pending = "sysexit"

\* A run ended by an exception raised in the inspect stage.
C2_WitnessRaise ==
    /\ dpc = "done" /\ outcome["inspect"] = "raise" /\ Count(trace, "except") = 1

\* C3 as stated: whatever the log-scan step does, the fetch of the logs
\* included, the exit code is the one the readiness, pull, inspect and run
\* stages decide: 0 when all four succeeded, 1 otherwise.
C3_LogScanNeverChangesExit ==
    dpc = "done" => dexit = (IF FourStagesOk THEN 0 ELSE 1)

\* C3 (amended): the settle delay and the substring scan never change the
\* exit code; it is decided by the readiness, pull, inspect and run stages
\* and the exit status of the log fetch: 0 when all succeeded, 1 otherwise,
\* whatever the logs hold.
C3_OnlyLogFetchChangesExit ==
    dpc = "done" =>
        dexit = (IF FourStagesOk /\ LogFetchRc = 0 THEN 0 ELSE 1)

\* The four stages succeeded, the logs hold a pattern, the exit code is 0.
C3_Witness ==
    /\ dpc = "done" /\ FourStagesOk /\ LogFetchRc = 0
    /\ "Error:" \in logs /\ dexit = 0

\* The four stages succeeded and the log fetch failed: exit code 1.
C3_WitnessFetchFailed ==
    dpc = "done" /\ FourStagesOk /\ LogFetchRc = 1 /\ dexit = 1

\* C4: commands are issued in stage order; a stage that does not succeed is
\* the last of the five to issue a command, and the run ends with exit code
\* 1; a readiness failure means both queries failed around one start
\* attempt, and no pull is issued.
C4_StageOrderAndFatalStops ==
    /\ \A i \in 1..Len(cmds), j \in 1..Len(cmds) :
        i < j => StageOfCmd(cmds[i]) <= StageOfCmd(cmds[j])
    /\ \A s \in Stages :
        outcome[s] \in {"exit", "raise"} =>
            /\ \A i \in 1..Len(cmds) :
                StageOfCmd(cmds[i]) <= StageRank(s) \/ StageOfCmd(cmds[i]) = 6
            /\ \A t \in Stages : StageRank(t) > StageRank(s) => outcome[t] = "none"
            /\ dpc = "done" => dexit = 1
    /\ \A s \in Stages :
        outcome[s] # "none" =>
            \A t \in Stages : StageRank(t) < StageRank(s) => outcome[t] = "ok"
    /\ outcome["readiness"] = "exit" =>
        /\ Len(cmds) >= 3
        /\ cmds[1].cmd = "info" /\ cmds[1].rc # 0
        /\ cmds[2].cmd = "dockerd"
        /\ cmds[3].cmd = "info" /\ cmds[3].rc # 0
        /\ Issued({"pull"}) = <<>>
    /\ LET q == Issued({"info"}) IN
       (Len(q) = 2 /\ q[1].rc # 0 /\ q[2].rc # 0) =>
            /\ Issued({"pull", "inspect", "rm -f", "run", "logs"}) = <<>>
            /\ dpc = "done" => dexit = 1
    /\ \A i \in 1..Len(cmds) :
        (cmds[i].cmd \in {"pull", "inspect", "run", "logs"} /\ cmds[i].rc # 0) =>
            /\ outcome[CHOOSE s \in Stages : StageRank(s) = StageOfCmd(cmds[i])] = "exit"
            /\ \A j \in (i + 1)..Len(cmds) : StageOfCmd(cmds[j]) = 6

\* The runtime was unreachable on both queries and the run is over.
C4_Witness ==
    /\ dpc = "done" /\ outcome["readiness"] = "exit" /\ dexit = 1

\* C8: when readiness, pull, inspect, run and the log fetch succeed, the
\* exit code is 0 whatever the logs hold; each of the five patterns the logs
\* hold is warned about once, nothing else is warned about, and the only
\* commands after the log fetch are those of cleanup.
C8_WarningsOnlyExitZero ==
    (dpc = "done" /\ FourStagesOk /\ LogFetchRc = 0) =>
        /\ dexit = 0
        /\ \A q \in {"Error:", "Exception:", "Failed:", "Could not",
                     "Unhandled exception"} :
            Count(warnings, q) = (IF q \in logs THEN 1 ELSE 0)
        /\ \A i \in 1..Len(warnings) :
            warnings[i] \in {"Error:", "Exception:", "Failed:", "Could not",
                             "Unhandled exception"}
        /\ Len(Issued({"stop", "rm"})) = (IF keep THEN 0 ELSE 2)
        /\ Len(Issued({"rm -f", "run", "logs", "pull", "inspect"})) = 5

\* A successful run whose logs hold "Unhandled exception" and "Failed:".
C8_Witness ==
    /\ dpc = "done" /\ dexit = 0
    /\ "Unhandled exception" \in logs /\ "Failed:" \in logs
    /\ Len(warnings) = 2

\* C10 as stated: a run that did not reach the run stage issues no stop,
\* remove or force-remove against the test container name.
C10_NoDestructiveBeforeRunStage ==
    (dpc = "done" /\ outcome["run"] = "none") =>
        SelectSeq(cmds, LAMBDA c : c.cmd \in Destructive /\ c.target = cname) = <<>>

\* C10 (amended): a force-remove is issued only by the run stage, once,
\* before the container is created; a run that ends before the run stage
\* issues no force-remove, and its cleanup still issues one stop and one
\* remove against the test container name unless the keep flag is set;
\* every destructive command names the test container.
C10_ForceRemoveOnlyInRunStage ==
    /\ \A i \in 1..Len(cmds) :
        cmds[i].cmd \in Destructive => cmds[i].target = cname
    /\ Issued({"rm -f"}) # <<>> =>
        /\ outcome["run"] # "none"
        /\ Len(Issued({"rm -f"})) = 1
    /\ Issued({"run"}) # <<>> =>
        /\ Len(Issued({"rm -f"})) = 1
        /\ \E i \in 1..(Len(cmds) - 1) :
            cmds[i].cmd = "rm -f" /\ cmds[i + 1].cmd = "run"
    /\ (dpc = "done" /\ outcome["run"] = "none") =>
        /\ Issued({"rm -f"}) = <<>>
        /\ Len(Issued({"stop"})) = (IF keep THEN 0 ELSE 1)
        /\ Len(Issued({"rm"})) = (IF keep THEN 0 ELSE 1)

\* A run that failed at pull, without the keep flag: stop and remove issued.
C10_Witness ==
    /\ dpc = "done" /\ ~keep
    /\ outcome["pull"] = "exit"
    /\ Len(Issued({"stop", "rm"})) = 2

====
